---------------------------- MODULE Spec2Model ----------------------------
(***************************************************************************)
(* MeasurementWidget (src/src/medical/measurement-widget.tsx) as a state   *)
(* machine: the value prop supplied by the form engine, the widget's local *)
(* state currentValue, and the two event handlers handleValueChange and    *)
(* handleUnitChange, with the pure computations parsedValue,               *)
(* validationState and convertValue as operators.                          *)
(*                                                                         *)
(* Numbers.  A JavaScript number that is a decimal with at most            *)
(* MaxLen fraction digits is the integer n = number * Scale.               *)
(* Conversions are computed exactly over the rationals and then rounded    *)
(* as Number(x.toFixed(d)) rounds; a result that sits exactly on a         *)
(* rounding midpoint may be rounded either way (toFixed rounds the binary  *)
(* double, which lies on one side or the other of the decimal midpoint),   *)
(* so convertValue yields a set of possible results.                       *)
(***************************************************************************)
EXTENDS Integers, Sequences, FiniteSets

VARIABLES measurementType, value, currentValue, emitted, event, threw

vars == <<measurementType, value, currentValue, emitted, event, threw>>

(***************************** bounds **************************************)
\* longest text typed into the magnitude field
MaxLen == 2
\* largest magnitude (in whole units) a unit change may produce in the model
MaxMagnitude == 1000

RECURSIVE Pow10(_)
Pow10(k) == IF k <= 0 THEN 1 ELSE 10 * Pow10(k - 1)

\* fixed-point scale: one unit of a magnitude is Scale (a typed text has
\* fewer than MaxLen fraction digits, a number of the engine at most MaxLen)
Scale == Pow10(MaxLen)

Abs(x) == IF x < 0 THEN -x ELSE x

(************************ JavaScript values ********************************)
Undef  == [k |-> "undef", n |-> 0, s |-> <<>>]
Null   == [k |-> "null",  n |-> 0, s |-> <<>>]
NaN    == [k |-> "nan",   n |-> 0, s |-> <<>>]
Num(x) == [k |-> "num",   n |-> x, s |-> <<>>]
Str(t) == [k |-> "str",   n |-> 0, s |-> t]

\* ToBoolean: undefined, null, 0, NaN and "" are falsy
Truthy(v) ==
    CASE v.k = "undef" -> FALSE
      [] v.k = "null"  -> FALSE
      [] v.k = "nan"   -> FALSE
      [] v.k = "num"   -> v.n # 0
      [] v.k = "str"   -> Len(v.s) > 0

\* a || b
Or(a, b) == IF Truthy(a) THEN a ELSE b

Digits == {"0", "1", "2", "3", "4", "5", "6", "7", "8", "9"}

DigitVal(c) ==
    CASE c = "0" -> 0 [] c = "1" -> 1 [] c = "2" -> 2 [] c = "3" -> 3
      [] c = "4" -> 4 [] c = "5" -> 5 [] c = "6" -> 6 [] c = "7" -> 7
      [] c = "8" -> 8 [] c = "9" -> 9

\* number of consecutive digits of t from position i on
RECURSIVE DigitRun(_, _)
DigitRun(t, i) ==
    IF i <= Len(t) /\ t[i] \in Digits THEN 1 + DigitRun(t, i + 1) ELSE 0

\* the integer written by the n digits of t that start at position i
RECURSIVE DigitsValue(_, _, _)
DigitsValue(t, i, n) ==
    IF n = 0 THEN 0
    ELSE 10 * DigitsValue(t, i, n - 1) + DigitVal(t[i + n - 1])

\* the longest prefix of t that is a decimal literal: [sign] digits [. digits]
\* or [sign] . digits; len = 0 when there is none
DecimalPrefix(t) ==
    LET sg == IF Len(t) >= 1 /\ t[1] \in {"-", "+"} THEN 1 ELSE 0
        ni == DigitRun(t, sg + 1)
        dot == sg + ni + 1 <= Len(t) /\ t[sg + ni + 1] = "."
        nf == IF dot THEN DigitRun(t, sg + ni + 2) ELSE 0
        mag == DigitsValue(t, sg + 1, ni) * Scale
               + (DigitsValue(t, sg + ni + 2, nf) * Scale) \div Pow10(nf)
    IN  IF ni = 0 /\ nf = 0
        THEN [len |-> 0, n |-> 0]
        ELSE [len |-> sg + ni + (IF dot THEN 1 + nf ELSE 0),
              n |-> IF sg = 1 /\ t[1] = "-" THEN -mag ELSE mag]

\* parseFloat(text): the number written by the longest numeric prefix, or NaN
parseFloat(t) ==
    LET p == DecimalPrefix(t)
    IN  IF p.len = 0 THEN NaN ELSE Num(p.n)

\* ToNumber, as isNaN, the arithmetic operators and the comparisons apply it
ToNumber(v) ==
    CASE v.k = "undef" -> NaN
      [] v.k = "null"  -> Num(0)
      [] v.k = "nan"   -> NaN
      [] v.k = "num"   -> v
      [] v.k = "str"   ->
            LET p == DecimalPrefix(v.s)
            IN  IF Len(v.s) = 0 THEN Num(0)
                ELSE IF p.len = Len(v.s) THEN Num(p.n) ELSE NaN

isNaN(v) == ToNumber(v).k = "nan"


(********************** MEASUREMENT_CONFIGS ********************************)
MeasurementTypes ==
    {"weight", "height", "heart_rate", "temperature", "blood_glucose"}

\* config.defaultUnit
defaultUnit(type) ==
    CASE type = "weight"        -> "kg"
      [] type = "height"        -> "cm"
      [] type = "heart_rate"    -> "bpm"
      [] type = "temperature"   -> "celsius"
      [] type = "blood_glucose" -> "mg/dL"

\* config.units, in order (the unit selector's options)
units(type) ==
    CASE type = "weight"        -> <<"kg", "lb", "g">>
      [] type = "height"        -> <<"cm", "in", "m">>
      [] type = "heart_rate"    -> <<"bpm">>
      [] type = "temperature"   -> <<"celsius", "fahrenheit">>
      [] type = "blood_glucose" -> <<"mg/dL", "mmol/L">>

unitSet(type) == {units(type)[i] : i \in 1..Len(units(type))}

\* the conversion field of a unit entry: absent, a factor num/den, or the
\* function c -> (c * 9/5) + 32
conversion(type, u) ==
    CASE u = "lb"         -> [kind |-> "linear", num |-> 220462, den |-> 100000]
      [] u = "g"          -> [kind |-> "linear", num |-> 1000,   den |-> 1]
      [] u = "in"         -> [kind |-> "linear", num |-> 393701, den |-> 1000000]
      [] u = "m"          -> [kind |-> "linear", num |-> 1,      den |-> 100]
      [] u = "mmol/L"     -> [kind |-> "linear", num |-> 555,    den |-> 10000]
      [] u = "fahrenheit" -> [kind |-> "fn",     num |-> 9,      den |-> 5]
      [] OTHER            -> [kind |-> "none",   num |-> 1,      den |-> 1]

\* config.ranges, in tenths of the default unit
ranges(type) ==
    CASE type = "weight" ->
            [nmin |-> 400, nmax |-> 2000, cmin |-> 300, cmax |-> 3000]
      [] type = "height" ->
            [nmin |-> 1400, nmax |-> 2200, cmin |-> 1000, cmax |-> 2500]
      [] type = "heart_rate" ->
            [nmin |-> 600, nmax |-> 1000, cmin |-> 400, cmax |-> 2000]
      [] type = "temperature" ->
            [nmin |-> 361, nmax |-> 372, cmin |-> 350, cmax |-> 420]
      [] type = "blood_glucose" ->
            [nmin |-> 700, nmax |-> 1400, cmin |-> 500, cmax |-> 4000]

\* config.precision
precision(type) ==
    CASE type \in {"weight", "height", "temperature"} -> 1
      [] type \in {"heart_rate", "blood_glucose"}     -> 0

\* a threshold of ranges as a fixed-point number
Threshold(tenths) == tenths * (Scale \div 10)

(************************ exact arithmetic *********************************)
\* <<q, r>> with v * a = q * b + r and 0 <= r < b, for v >= 0, a >= 0, b > 0,
\* computed digit by digit so that no intermediate product leaves 32 bits
RECURSIVE MulDiv(_, _, _)
MulDiv(v, a, b) ==
    IF v = 0 THEN <<0, 0>>
    ELSE LET h == MulDiv(v \div 10, a, b)
             t == 10 * h[2] + (v % 10) * a
         IN  <<10 * h[1] + (t \div b), t % b>>

\* the multiples of step nearest to the exact value q + r/b (q, r >= 0);
\* both neighbours when the value is exactly half way
NearestMultiples(q, r, b, step) ==
    LET m  == q % step
        lo == q - m
        above == \/ 2 * m > step
                 \/ 2 * m = step /\ r > 0
                 \/ 2 * m = step - 1 /\ 2 * r > b
        tie   == \/ 2 * m = step /\ r = 0
                 \/ 2 * m = step - 1 /\ 2 * r = b
    IN  IF above THEN {lo + step}
        ELSE IF tie THEN {lo, lo + step}
        ELSE {lo}

\* Number((n * a / b).toFixed(digits)) for a fixed-point n: the possible results
toFixed(n, a, b, digits) ==
    LET qr == MulDiv(Abs(n), a, b)
        rs == NearestMultiples(qr[1], qr[2], b, Scale \div Pow10(digits))
    IN  {IF n < 0 THEN -x ELSE x : x \in rs}

(********************* raw form values *************************************)
\* what the form engine may hand over as the value prop: a primitive
\* (undefined, null, a number, a string) or an object with optional value
\* and unit fields (hasUnit = FALSE: no unit field)
Prim(v)   == [obj |-> FALSE, prim |-> v, val |-> Undef, hasUnit |-> FALSE,
              unit |-> ""]
Obj(v, u) == [obj |-> TRUE, prim |-> Undef, val |-> v, hasUnit |-> TRUE,
              unit |-> u]
ObjNoUnit(v) == [obj |-> TRUE, prim |-> Undef, val |-> v, hasUnit |-> FALSE,
                 unit |-> ""]

\* serialize: the object handed to onChange, as the engine stores it
serialize(mv) == Obj(mv.value, mv.unit)

\* config = MEASUREMENT_CONFIGS[measurementType]; measurementType is the type
\* the schema names, an unknown or missing name being resolved to weight
config == measurementType

\* parsedValue: the MeasurementValue read from the value prop
parsedValue(raw) ==
    IF ~raw.obj /\ ~Truthy(raw.prim)
    THEN [value |-> Null, unit |-> defaultUnit(config)]
    ELSE IF raw.obj
    THEN [value |-> Or(raw.val, Null),
          unit  |-> IF raw.hasUnit /\ raw.unit # "" THEN raw.unit
                    ELSE defaultUnit(config)]
    ELSE IF raw.prim.k = "num"
    THEN [value |-> raw.prim, unit |-> defaultUnit(config)]
    ELSE [value |-> Null, unit |-> defaultUnit(config)]

(************************ validationState **********************************)
\* x / (num/den) < tenths, exactly (x a fixed-point number)
BelowThreshold(x, cv, tenths) ==
    LET qr == MulDiv(Threshold(tenths), cv.num, cv.den)
    IN  x < qr[1] \/ (x = qr[1] /\ qr[2] > 0)

\* x / (num/den) > tenths, exactly
AboveThreshold(x, cv, tenths) ==
    LET qr == MulDiv(Threshold(tenths), cv.num, cv.den)
    IN  x > qr[1]

\* validationState of a MeasurementValue: "none" stands for null.  Every
\* config of MEASUREMENT_CONFIGS has ranges with both normal and critical, so
\* the tests for a missing ranges, ranges.critical or ranges.normal never fire.
validationState(mv) ==
    IF ~Truthy(mv.value) THEN "none"
    ELSE
    LET r  == ranges(config)
        c  == conversion(config, mv.unit)
        \* only a numeric conversion of a unit of the config divides
        f  == IF mv.unit \in unitSet(config) /\ c.kind = "linear" THEN c
              ELSE [kind |-> "none", num |-> 1, den |-> 1]
        b  == ToNumber(mv.value)
    IN  IF b.k = "nan" THEN "normal"   \* every comparison with NaN is false
        ELSE IF BelowThreshold(b.n, f, r.cmin) \/ AboveThreshold(b.n, f, r.cmax)
        THEN "critical"
        ELSE IF BelowThreshold(b.n, f, r.nmin) \/ AboveThreshold(b.n, f, r.nmax)
        THEN "warning"
        ELSE "normal"

(************************** convertValue ***********************************)
\* the outcome of a call that throws (a string has no toFixed)
Thrown == [k |-> "throw", n |-> 0, s |-> <<>>]

\* config.precision || 1
fixedDigits == IF precision(config) = 0 THEN 1 ELSE precision(config)

\* convertValue rounding to `digits` digits: the set of possible outcomes
convertWith(digits, val, fromUnit, toUnit) ==
    IF fromUnit = toUnit THEN {val}
    ELSE IF fromUnit \notin unitSet(config) \/ toUnit \notin unitSet(config)
    THEN {val}
    ELSE
    LET fc == conversion(config, fromUnit)
        tc == conversion(config, toUnit)
        x  == ToNumber(val)
    IN  IF fc.kind # "linear" /\ tc.kind = "none"
        THEN \* baseValue = targetValue = val, whatever its type
             IF val.k = "num"
             THEN {Num(y) : y \in toFixed(val.n, 1, 1, digits)}
             ELSE {Thrown}
        ELSE IF x.k = "nan" THEN {NaN}
        ELSE
        LET fnum == IF fc.kind = "linear" THEN fc.num ELSE 1
            fden == IF fc.kind = "linear" THEN fc.den ELSE 1
        IN  IF tc.kind = "fn"
            THEN \* (base * 9/5) + 32 with base = val / factor
                 {Num(y) : y \in toFixed(9 * x.n * fden + 160 * Scale * fnum,
                                         1, 5 * fnum, digits)}
            ELSE \* (val / factor of fromUnit) * factor of toUnit
                 {Num(y) : y \in toFixed(x.n, fden * tc.num, fnum * tc.den,
                                         digits)}

\* convertValue that forgets to normalize to the base unit first
convertValueFromBase(val, fromUnit, toUnit) ==
    IF fromUnit = toUnit THEN {val}
    ELSE convertWith(fixedDigits, val, defaultUnit(config), toUnit)

convertValue(val, fromUnit, toUnit) ==
    convertWith(fixedDigits, val, fromUnit, toUnit)

(***************************** render **************************************)
\* the status badge is rendered
badgeShown(mv) ==
    validationState(mv) # "none" /\ ~isNaN(Or(mv.value, Num(0)))

\* a range alert (critical or warning) is rendered
alertShown(mv) == validationState(mv) \in {"critical", "warning"}

\* the unit selector is rendered
selectShown == Len(units(config)) > 1

(***************************** inputs **************************************)
\* characters of the texts typed into the magnitude field
Chars == {"0", "5", ".", "-", "a"}

Texts == UNION {[1..n -> Chars] : n \in 0..MaxLen}

\* a whole number as a fixed-point number
W(x) == Num(x * Scale)

\* a number of hundredths as a fixed-point number
Hundredths(x) == Num(x * (Scale \div 100))

\* values the form engine supplies as the value prop
RawValues ==
    {Prim(Undef), Prim(Null), Prim(Str(<<"a", "b", "c">>)),
     Prim(W(30)), Prim(Hundredths(3725)), Prim(W(45)),
     Obj(W(150), "lb"), Obj(W(80), ""), Obj(W(5), "stone"),
     Obj(Str(<<"a", "b", "c">>), "kg"), Obj(Str(<<"9", "8">>), "fahrenheit"),
     ObjNoUnit(W(40)), ObjNoUnit(Undef)}

(***************************** state ***************************************)
\* event: the last thing that happened (a history variable):
\*   kind        "mount", "render", "edit" or "unit"
\*   text        the text of an edit
\*   newUnit     the unit chosen in the unit selector
\*   beforeUnit  the local unit when a handler started
\*   beforeValue the local magnitude when handleUnitChange started
Event(kind, text, newUnit, beforeUnit, beforeValue) ==
    [kind |-> kind, text |-> text, newUnit |-> newUnit,
     beforeUnit |-> beforeUnit, beforeValue |-> beforeValue]

\* the component mounts: useState(parsedValue) takes the parsed value prop
Init ==
    /\ measurementType \in MeasurementTypes
    /\ value \in RawValues
    /\ currentValue = parsedValue(value)
    /\ emitted = <<>>
    /\ event = Event("mount", <<>>, "", "", Null)
    /\ threw = FALSE

\* the form engine re-renders the widget with a value prop of its own;
\* parsedValue is recomputed, useState keeps the local state it has
Rerender(raw) ==
    /\ value' = raw
    /\ currentValue' = currentValue
    /\ emitted' = <<>>
    /\ event' = Event("render", <<>>, "", "", Null)
    /\ threw' = FALSE
    /\ UNCHANGED measurementType

\* handleValueChange without the isNaN test: NaN is stored and emitted
editedValueKeepsNaN(newValue) ==
    [value |-> parseFloat(newValue), unit |-> currentValue.unit]

\* the MeasurementValue handleValueChange builds from the typed text
editedValue(newValue) ==
    LET numValue == parseFloat(newValue)
    IN  [value |-> IF isNaN(numValue) THEN Null ELSE numValue,
         unit  |-> currentValue.unit]

\* handleValueChange(newValue): setCurrentValue and onChange; the engine
\* stores what onChange hands it and re-renders with it
handleValueChange(newValue) ==
    LET updatedValue == editedValue(newValue)
    IN  /\ currentValue' = updatedValue
        /\ emitted' = <<updatedValue>>
        /\ value' = serialize(updatedValue)
        /\ event' = Event("edit", newValue, "", currentValue.unit, Null)
        /\ threw' = FALSE
        /\ UNCHANGED measurementType

\* the possible outcomes of the conversion in handleUnitChange
convertedValues(newUnit) ==
    IF currentValue.value # Null /\ ~isNaN(currentValue.value)
    THEN convertValue(currentValue.value, currentValue.unit, newUnit)
    ELSE {currentValue.value}

InModel(v) == v.k = "num" => Abs(v.n) <= MaxMagnitude * Scale

\* handleUnitChange(newUnit), newUnit an option of the unit selector
handleUnitChange(newUnit) ==
    /\ selectShown
    /\ \A c \in convertedValues(newUnit) : InModel(c)
    /\ \E convertedValue \in convertedValues(newUnit) :
          IF convertedValue = Thrown
          THEN /\ threw' = TRUE
               /\ emitted' = <<>>
               /\ UNCHANGED <<currentValue, value>>
          ELSE LET updatedValue ==
                       [value |-> convertedValue, unit |-> newUnit]
               IN  /\ currentValue' = updatedValue
                   /\ emitted' = <<updatedValue>>
                   /\ value' = serialize(updatedValue)
                   /\ threw' = FALSE
    /\ event' = Event("unit", <<>>, newUnit, currentValue.unit,
                    currentValue.value)
    /\ UNCHANGED measurementType

Next ==
    \/ \E raw \in RawValues : Rerender(raw)
    \/ \E t \in Texts : handleValueChange(t)
    \/ \E u \in unitSet(config) : handleUnitChange(u)

Spec == Init /\ [][Next]_vars

(***************************** claims **************************************)
\* the last handler was a unit change between two units of the config that
\* found a number in the local state and did not throw
UnitChanged ==
    /\ event.kind = "unit"
    /\ ~threw
    /\ event.beforeValue.k = "num"
    /\ event.beforeUnit \in unitSet(config)

\* the local value when the last unit change started
before == [value |-> event.beforeValue, unit |-> event.beforeUnit]

\* C1: at the end of every render the local value equals the value parsed
\* from the value prop the engine supplies.
C1_LocalMirrorsEngine == currentValue = parsedValue(value)

\* the status the thresholds give a magnitude x that is in the base unit
Classify(x) ==
    LET r == ranges(config)
    IN  IF x < Threshold(r.cmin) \/ x > Threshold(r.cmax) THEN "critical"
        ELSE IF x < Threshold(r.nmin) \/ x > Threshold(r.nmax) THEN "warning"
        ELSE "normal"

\* C2: a present magnitude in the base unit (0 and negatives included) has
\* the status critical outside ranges.critical, else warning outside
\* ranges.normal, else normal; never none.
C2_StatusInBaseUnit ==
    (currentValue.value.k = "num" /\ currentValue.unit = defaultUnit(config))
        => validationState(currentValue) = Classify(currentValue.value.n)

\* the magnitude x in unit u, normalized to the base unit, is below / above
\* a threshold: x / factor for a factor, (x - 32) * 5/9 for fahrenheit
NormalizedBelow(x, u, tenths) ==
    LET c == conversion(config, u)
    IN  IF c.kind = "fn" THEN 5 * x < 9 * Threshold(tenths) + 160 * Scale
        ELSE BelowThreshold(x, c, tenths)

NormalizedAbove(x, u, tenths) ==
    LET c == conversion(config, u)
    IN  IF c.kind = "fn" THEN 5 * x > 9 * Threshold(tenths) + 160 * Scale
        ELSE AboveThreshold(x, c, tenths)

ClassifyNormalized(x, u) ==
    LET r == ranges(config)
    IN  IF NormalizedBelow(x, u, r.cmin) \/ NormalizedAbove(x, u, r.cmax)
        THEN "critical"
        ELSE IF NormalizedBelow(x, u, r.nmin) \/ NormalizedAbove(x, u, r.nmax)
        THEN "warning"
        ELSE "normal"

\* C3: the status of a magnitude in a unit other than the default unit is
\* the status of that magnitude normalized to the base unit, for every unit
\* of the config, fahrenheit included.
C3_StatusComparesBaseMagnitude ==
    (/\ currentValue.value.k = "num"
     /\ currentValue.value.n # 0
     /\ currentValue.unit \in unitSet(config)
     /\ currentValue.unit # defaultUnit(config))
        => validationState(currentValue)
             = ClassifyNormalized(currentValue.value.n, currentValue.unit)

WellFormed(mv) == mv.value.k \in {"num", "null"}

\* C4: parsing what the widget emits gives the emitted value back, magnitude
\* and unit unchanged, for every well-formed emitted value (0 included).
C4_ParseInvertsSerialize ==
    \A i \in 1..Len(emitted) :
        WellFormed(emitted[i])
            => parsedValue(serialize(emitted[i])) = emitted[i]

\* C5: a conversion between two different known units yields a magnitude
\* with exactly config.precision decimal digits (a whole number for
\* precision 0).
C5_ConvertedHasPrecisionDigits ==
    (UnitChanged /\ event.beforeUnit # event.newUnit)
        => /\ currentValue.value.k = "num"
           /\ currentValue.value.n % (Scale \div Pow10(precision(config))) = 0

\* both units of the last unit change have a factor or are the base unit
LinearPair ==
    /\ UnitChanged
    /\ conversion(config, event.beforeUnit).kind # "fn"
    /\ conversion(config, event.newUnit).kind # "fn"

\* converting the local magnitude back to the unit it came from lands
\* within tol of the magnitude before the unit change
BackWithin(tol) ==
    \A z \in convertValue(currentValue.value, currentValue.unit,
                          event.beforeUnit) :
        z.k = "num" /\ Abs(z.n - event.beforeValue.n) <= tol

\* C6 as stated: for every pair of linear (or identity) units, converting x
\* from u1 to u2 and back differs from x by at most 10^-precision.
C6_RoundTripWithinPrecision ==
    LinearPair => BackWithin(Scale \div Pow10(precision(config)))

\* factor of u1 <= factor of u2: u2 is the same or a finer unit
FactorAtMost(u1, u2) ==
    LET c1 == conversion(config, u1)
        c2 == conversion(config, u2)
        qr == MulDiv(c1.num, c2.den, c1.den)
    IN  qr[1] < c2.num \/ (qr[1] = c2.num /\ qr[2] = 0)

\* C6 amended: for every pair of linear (or identity) units (u1, u2) in
\* which the factor of u1 is at most the factor of u2, converting x from u1
\* to u2 and back differs from x by at most 10^-precision.
C6_RoundTripToFinerUnit ==
    (LinearPair /\ FactorAtMost(event.beforeUnit, event.newUnit))
        => BackWithin(Scale \div Pow10(precision(config)))

\* a unit change to a finer unit has acted on a magnitude that the round
\* trip does not give back exactly
C6_Witness ==
    /\ LinearPair
    /\ event.beforeUnit # event.newUnit
    /\ FactorAtMost(event.beforeUnit, event.newUnit)
    /\ \E z \in convertValue(currentValue.value, currentValue.unit,
                              event.beforeUnit) :
           z.k = "num" /\ z.n # event.beforeValue.n

\* C7: a unit change to u' turns a local value {m, u} with m present into
\* {convert(m, u, u'), u'}, convert rounding to config.precision digits, and
\* one with m absent into {null, u'}; onChange is called exactly once, with
\* that value.
C7_UnitChangeConvertsAndNotifies ==
    (event.kind = "unit" /\ event.beforeValue.k \in {"num", "null"})
        => /\ currentValue.unit = event.newUnit
           /\ IF event.beforeValue.k = "num"
              THEN currentValue.value
                     \in convertWith(precision(config), event.beforeValue,
                                     event.beforeUnit, event.newUnit)
              ELSE currentValue.value = Null
           /\ emitted = <<currentValue>>

\* the text starts, after an optional sign and an optional point, with a digit
HasNumericPrefix(t) ==
    \E i \in 1..Len(t) :
        /\ t[i] \in Digits
        /\ SubSeq(t, 1, i - 1) \in {<<>>, <<"-">>, <<"+">>, <<".">>,
                                    <<"-", ".">>, <<"+", ".">>}

\* C8: a magnitude edit keeps the unit, stores the parsed number or, for an
\* unparsable text, null, and calls onChange exactly once with that value;
\* after an unparsable edit the status is none and neither the badge nor a
\* range alert is rendered.
C8_EditSetsMagnitudeKeepsUnit ==
    event.kind = "edit"
        => /\ currentValue.unit = event.beforeUnit
           /\ IF HasNumericPrefix(event.text)
              THEN currentValue.value = parseFloat(event.text)
                   /\ currentValue.value.k = "num"
              ELSE /\ currentValue.value = Null
                   /\ validationState(currentValue) = "none"
                   /\ ~badgeShown(currentValue)
                   /\ ~alertShown(currentValue)
           /\ emitted = <<currentValue>>

\* an unparsable text was typed while the local unit was not the default one
C8_Witness ==
    /\ event.kind = "edit"
    /\ event.text = <<"-", "a">>
    /\ currentValue.unit = "lb"
    /\ currentValue.value = Null
    /\ emitted = <<currentValue>>

\* C9: every value handed to onChange is {value: number or null, unit}:
\* value is never a string and never NaN.
C9_EmittedShape ==
    \A i \in 1..Len(emitted) : emitted[i].value.k \in {"num", "null"}

\* C10: the status right after a unit change equals the status of the local
\* value right before it.
C10_UnitChangeKeepsStatus ==
    UnitChanged => validationState(currentValue) = validationState(before)

=============================================================================
